---------------------------- MODULE Spec2Model ----------------------------
(***************************************************************************)
(* DocScribe: a model of core.py (the SumarioPaciente schema, the two      *)
(* pipeline stages and process_audio) and of the conversational session    *)
(* of app_chat.py (Streamlit session state, the three handlers and the     *)
(* streaming loop).                                                        *)
(*                                                                         *)
(* Text is modelled as a sequence of lexical chunks: plain text,           *)
(* whitespace, the two delimiter markers and JSON documents.  A JSON       *)
(* document is a tagged value, so that json.loads and the pydantic         *)
(* validation of SumarioPaciente(data) are computed, not assumed.        *)
(***************************************************************************)
EXTENDS Naturals, Sequences, FiniteSets

VARIABLES
    \* ---- app_chat.py: st.session_state and the running script ----
    messages,        \* st.session_state.messages
    transcription,   \* st.session_state.transcription
    sumario_final,   \* st.session_state.sumario_final
    pc,              \* "ready" (waiting for the user) or "streaming"
    full_response,   \* the local buffer of the chat handler
    placeholder,     \* what message_placeholder currently shows
    stream,          \* what the generation service has still to send
    notice,          \* the notice the last script run emitted
    lastOp,          \* the handler that ran last and the state it ran from
    \* ---- core.py: one process_audio run ----
    pa_pc, pa_audio, pa_filename, pa_transcription, pa_sumario,
    pa_returned, pa_raised, groq_calls, groq_request, anthropic_calls,
    \* ---- core.py: one SumarioPaciente(data) construction ----
    sc_pc, sc_data, sc_result,
    \* ---- core.py: formatar and model_dump of one record ----
    fm_pc, fm_record, fm_text, fm_dump, fm_rebuilt,
    \* ---- app.py: st.session_state and one Gerar Sumario run ----
    ap_pc, ap_transcription, ap_sumario, ap_sumario_text, ap_local,
    ap_notice, ap_source, ap_shown, ap_uploaded

chatVars == <<messages, transcription, sumario_final, pc, full_response,
              placeholder, stream, notice, lastOp>>
pipeVars == <<pa_pc, pa_audio, pa_filename, pa_transcription, pa_sumario,
              pa_returned, pa_raised, groq_calls, groq_request,
              anthropic_calls>>
schemaVars == <<sc_pc, sc_data, sc_result>>
formatVars == <<fm_pc, fm_record, fm_text, fm_dump, fm_rebuilt>>
appVars == <<ap_pc, ap_transcription, ap_sumario, ap_sumario_text, ap_local,
             ap_notice, ap_source, ap_shown, ap_uploaded>>
vars == <<chatVars, pipeVars, schemaVars, formatVars, appVars>>

-----------------------------------------------------------------------------
(* Bounds *)

\* longest list a JSON payload of the schema check holds
MaxItems == 1
\* longest message history of a conversational session
MaxMessages == 6
\* longest list of a record that is formatted and dumped
MaxList == 2

-----------------------------------------------------------------------------
(* JSON values, as json.loads produces them *)

\* the five fields of SumarioPaciente
StrFields == {"leito", "nome_paciente"}
ListFields == {"diagnosticos", "pendencias", "condutas"}
FieldNames == StrFields \cup ListFields

\* elements of a JSON list: a string or something that is not a string
AStr(s) == [t |-> "str", s |-> s]
ANum(s) == [t |-> "num", s |-> s]

\* values of a key of a JSON object; Absent stands for "the key is not there"
Absent == [t |-> "absent", s |-> "", items |-> <<>>]
JStr(s) == [t |-> "str", s |-> s, items |-> <<>>]
JNum(s) == [t |-> "num", s |-> s, items |-> <<>>]
JNull == [t |-> "null", s |-> "", items |-> <<>>]
JList(items) == [t |-> "list", s |-> "", items |-> items]

\* a JSON document: an object (its keys in fields) or a value of another kind
JObject(f) == [kind |-> "obj", fields |-> f]
JOther(k) == [kind |-> k, fields |-> [f \in FieldNames |-> Absent]]

-----------------------------------------------------------------------------
(* core.py: SumarioPaciente *)

\* Python's None and a present value, for a slot holding a record
BlankRecord == [leito |-> "", nome_paciente |-> "", diagnosticos |-> <<>>,
                pendencias |-> <<>>, condutas |-> <<>>]
None == [isNone |-> TRUE, val |-> BlankRecord]
Some(r) == [isNone |-> FALSE, val |-> r]

\* pydantic's check of a `str` field: the key is there and holds a string
StrFieldErrors(v) ==
    IF v.t = "absent" THEN {"missing"}
    ELSE IF v.t # "str" THEN {"string_type"}
    ELSE {}

\* a list check that does not look at the items
ListFieldErrorsCoercing(v) ==
    IF v.t = "absent" THEN {"missing"}
    ELSE IF v.t # "list" THEN {"list_type"}
    ELSE {}

\* pydantic's check of a `list[str]` field: there, a list, every item a string
ListFieldErrors(v) ==
    IF v.t = "absent" THEN {"missing"}
    ELSE IF v.t # "list" THEN {"list_type"}
    ELSE IF \E i \in 1..Len(v.items) : v.items[i].t # "str" THEN {"string_type"}
    ELSE {}

\* the errors pydantic collects over the five fields, by field
ValidationErrors(data) ==
    [f \in FieldNames |->
        IF f \in StrFields THEN StrFieldErrors(data.fields[f])
        ELSE ListFieldErrors(data.fields[f])]

StrList(items) == [i \in 1..Len(items) |-> items[i].s]

\* the record pydantic builds from a payload without errors
BuildRecord(data) ==
    [leito |-> data.fields["leito"].s,
     nome_paciente |-> data.fields["nome_paciente"].s,
     diagnosticos |-> StrList(data.fields["diagnosticos"].items),
     pendencias |-> StrList(data.fields["pendencias"].items),
     condutas |-> StrList(data.fields["condutas"].items)]

\* SumarioPaciente(data): TypeError unless data is a mapping, a
\* ValidationError when a field has errors, else the record
SumarioPaciente(data) ==
    IF data.kind # "obj"
    THEN [ok |-> FALSE, error |-> "TypeError", val |-> BlankRecord]
    ELSE IF \E f \in FieldNames : ValidationErrors(data)[f] # {}
    THEN [ok |-> FALSE, error |-> "ValidationError", val |-> BlankRecord]
    ELSE [ok |-> TRUE, error |-> "none", val |-> BuildRecord(data)]

-----------------------------------------------------------------------------
(* The payloads the schema check is run on *)

RECURSIVE SeqsUpTo(_, _)
SeqsUpTo(S, n) ==
    IF n = 0 THEN {<<>>}
    ELSE LET shorter == SeqsUpTo(S, n - 1)
         IN  shorter \cup {Append(q, x) : q \in {r \in shorter : Len(r) = n - 1}, x \in S}

Atoms == {AStr("a"), ANum("7")}
FieldValues ==
    {Absent, JStr("1"), JNum("7"), JNull}
        \cup {JList(l) : l \in SeqsUpTo(Atoms, MaxItems)}
Payloads ==
    {JObject(f) : f \in [FieldNames -> FieldValues]}
        \cup {JOther("list"), JOther("str"), JOther("num")}

NoResult == [ok |-> FALSE, error |-> "none", val |-> BlankRecord]

-----------------------------------------------------------------------------
(* app_chat.py: text, as a sequence of chunks *)

NoDoc == JOther("none")
TextChunk(s) == [k |-> "text", s |-> s, doc |-> NoDoc]
Ws == [k |-> "ws", s |-> " ", doc |-> NoDoc]
Open == [k |-> "open", s |-> "<sumario_json>", doc |-> NoDoc]
Close == [k |-> "close", s |-> "</sumario_json>", doc |-> NoDoc]
Json(d) == [k |-> "json", s |-> "", doc |-> d]

\* `marker in full_response`
Contains(text, k) == \E i \in 1..Len(text) : text[i].k = k

\* an index that finds the last occurrence, as rindex does
IndexLast(text, k) ==
    CHOOSE i \in 1..Len(text) :
        text[i].k = k /\ \A j \in (i + 1)..Len(text) : text[j].k # k

\* full_response.index(marker): the position of the first occurrence
Index(text, k) ==
    CHOOSE i \in 1..Len(text) :
        text[i].k = k /\ \A j \in 1..(i - 1) : text[j].k # k

\* full_response[json_start:json_end]; a Python slice whose start is past
\* its end is empty
Slice(text, first, last) ==
    IF first > last THEN <<>> ELSE SubSeq(text, first, last)

RECURSIVE LStrip(_)
LStrip(text) ==
    IF text # <<>> /\ Head(text).k = "ws" THEN LStrip(Tail(text)) ELSE text

RECURSIVE RStrip(_)
RStrip(text) ==
    IF text # <<>> /\ text[Len(text)].k = "ws"
    THEN RStrip(SubSeq(text, 1, Len(text) - 1))
    ELSE text

\* str.strip()
Strip(text) == RStrip(LStrip(text))

\* json.loads: the text must be exactly one JSON document
JsonLoads(text) ==
    IF Len(text) = 1 /\ text[1].k = "json"
    THEN [ok |-> TRUE, doc |-> text[1].doc]
    ELSE [ok |-> FALSE, doc |-> NoDoc]

\* the condition of the `if` that guards the try block
HasBothMarkers(text) == Contains(text, "open") /\ Contains(text, "close")

\* json_str of the try block: between the end of the first opening marker
\* and the start of the first closing marker, stripped
JsonStr(text) ==
    LET json_start == Index(text, "open") + 1
        json_end == Index(text, "close")
    IN  Strip(Slice(text, json_start, json_end - 1))

\* the try block up to the construction of the record: any exception of
\* json.loads or of SumarioPaciente(data) ends in the except branch
ParseSumario(text) ==
    LET loaded == JsonLoads(JsonStr(text))
    IN  IF ~loaded.ok
        THEN [ok |-> FALSE, error |-> "JSONDecodeError", val |-> BlankRecord]
        ELSE SumarioPaciente(loaded.doc)

-----------------------------------------------------------------------------
(* app_chat.py: what the user and the two services may supply *)

DocA ==
    JObject([leito |-> JStr("1"), nome_paciente |-> JStr("Maria"),
             diagnosticos |-> JList(<<AStr("IRA")>>),
             pendencias |-> JList(<<>>),
             condutas |-> JList(<<AStr("Manter")>>)])
DocB ==
    JObject([leito |-> JStr("2"), nome_paciente |-> JStr("Maria"),
             diagnosticos |-> JList(<<AStr("IRA"), AStr("Sepse")>>),
             pendencias |-> JList(<<AStr("TC")>>),
             condutas |-> JList(<<AStr("Manter")>>)])
DocMissing ==
    JObject([leito |-> JStr("1"), nome_paciente |-> JStr("Maria"),
             diagnosticos |-> JList(<<AStr("IRA")>>),
             pendencias |-> JList(<<>>),
             condutas |-> Absent])
DocBadList ==
    JObject([leito |-> JStr("1"), nome_paciente |-> JStr("Maria"),
             diagnosticos |-> JList(<<AStr("IRA"), ANum("7")>>),
             pendencias |-> JList(<<>>),
             condutas |-> JList(<<AStr("Manter")>>)])
DocNotObject == JOther("list")

\* the responses the generation service may stream
Responses ==
    { <<>>,
      <<TextChunk("pergunta")>>,
      <<TextChunk("ok"), Open, Ws, Json(DocA), Ws, Close>>,
      <<Open, Json(DocB), Close, TextChunk("fim")>>,
      <<Open, Json(DocMissing), Close>>,
      <<Open, Json(DocBadList), Close>>,
      <<Open, Json(DocNotObject), Close>>,
      <<Open, TextChunk("leito 1"), Close>>,
      <<Close, Json(DocA), Open>>,
      <<Close, Open, Json(DocA), Close>>,
      <<Open, Json(DocA), Close, Open, Json(DocB), Close>>,
      <<Open, Json(DocA)>>,
      <<Json(DocA), Close>> }

\* what st.chat_input returns: a non-empty text
Prompts == {<<TextChunk("confirmo")>>}

\* what the transcription service may return as transcription.text
ServiceTexts == {"", "leito 3 paciente Joao", "leito 1 Maria"}

NoText == [isNone |-> TRUE, val |-> ""]
SomeText(t) == [isNone |-> FALSE, val |-> t]

Blank == [text |-> <<>>, cursor |-> FALSE]

\* the three states of the session, read off st.session_state
SessionState ==
    IF ~sumario_final.isNone THEN "Finalized"
    ELSE IF messages = <<>> THEN "Idle"
    ELSE "Conversing"

Op(name) == [op |-> name, from |-> SessionState]

-----------------------------------------------------------------------------
(* core.py: transcribe_audio *)

WHISPER_MODEL == "whisper-large-v3-turbo"

\* the one request transcribe_audio builds from its arguments
TranscriptionRequest(audio_bytes, filename) ==
    [file |-> <<filename, audio_bytes>>, model |-> WHISPER_MODEL,
     temperature |-> 0, response_format |-> "verbose_json"]

\* what one call of transcribe_audio may do: return transcription.text as
\* the service gave it, or let the service's exception through
TranscribeOutcomes ==
    {[ok |-> TRUE, text |-> t, error |-> "none"] : t \in ServiceTexts}
        \cup {[ok |-> FALSE, text |-> "", error |-> "GroqError"]}

-----------------------------------------------------------------------------
(* app_chat.py: the session *)

UserMessage(content) == [role |-> "user", content |-> content]
AssistantMessage(content) == [role |-> "assistant", content |-> content]

\* user_msg of the Transcrever handler
TranscriptContent(t) ==
    <<TextChunk("Aqui esta a transcricao do audio:")>>
        \o (IF t = "" THEN <<>> ELSE <<TextChunk(t)>>)

\* a finalization that stores whatever json.loads returned, unvalidated
SumarioAfterUnvalidated(text, current) ==
    IF HasBothMarkers(text) /\ JsonLoads(JsonStr(text)).ok
    THEN Some(BuildRecord(JsonLoads(JsonStr(text)).doc))
    ELSE current

\* st.session_state.sumario_final after the block that follows the append
SumarioAfter(text, current) ==
    IF HasBothMarkers(text) /\ ParseSumario(text).ok
    THEN Some(ParseSumario(text).val)
    ELSE current

\* st.success on a parsed record, st.warning in the except branch
NoticeAfter(text) ==
    IF ~HasBothMarkers(text) THEN "none"
    ELSE IF ParseSumario(text).ok THEN "success"
    ELSE "warning"

ChatInit ==
    /\ messages = <<>>
    /\ transcription = NoText
    /\ sumario_final = None
    /\ pc = "ready"
    /\ full_response = <<>>
    /\ placeholder = Blank
    /\ stream = <<>>
    /\ notice = "none"
    /\ lastOp = [op |-> "Init", from |-> "Idle"]

PipeInit ==
    /\ pa_pc = "idle"
    /\ pa_audio = <<>>
    /\ pa_filename = ""
    /\ pa_transcription = NoText
    /\ pa_sumario = None
    /\ pa_returned = [isNone |-> TRUE, text |-> "", sumario |-> BlankRecord]
    /\ pa_raised = "none"
    /\ groq_calls = 0
    /\ groq_request = TranscriptionRequest(<<>>, "")
    /\ anthropic_calls = 0

SchemaInit ==
    /\ sc_pc = "idle"
    /\ sc_data = NoDoc
    /\ sc_result = NoResult

FormatInit ==
    /\ fm_pc = "idle"
    /\ fm_record = BlankRecord
    /\ fm_text = <<>>
    /\ fm_dump = NoDoc
    /\ fm_rebuilt = NoResult

\* app.py keeps nothing in st.session_state before the first run
AppInit ==
    /\ ap_pc = "ready"
    /\ ap_transcription = NoText
    /\ ap_sumario = None
    /\ ap_sumario_text = <<>>
    /\ ap_local = NoText
    /\ ap_notice = "none"
    /\ ap_source = NoText
    /\ ap_shown = [transcription |-> NoText, sumario |-> None]
    /\ ap_uploaded = [isNone |-> TRUE, bytes |-> <<>>]

\* st.chat_input returned a prompt: the user turn is appended and the
\* stream is opened
ChatInput ==
    /\ pc = "ready"
    /\ Len(messages) + 2 <= MaxMessages
    /\ \E prompt \in Prompts, response \in Responses :
         /\ messages' = Append(messages, UserMessage(prompt))
         /\ stream' = response
    /\ full_response' = <<>>
    /\ placeholder' = Blank
    /\ pc' = "streaming"
    /\ notice' = "none"
    /\ lastOp' = Op("ChatInput")
    /\ UNCHANGED <<transcription, sumario_final>>
    /\ UNCHANGED <<pipeVars, schemaVars, formatVars, appVars>>

\* one turn of `for text in stream.text_stream`
StreamText ==
    /\ pc = "streaming"
    /\ stream # <<>>
    /\ full_response' = Append(full_response, Head(stream))
    /\ placeholder' = [text |-> Append(full_response, Head(stream)), cursor |-> TRUE]
    /\ stream' = Tail(stream)
    /\ lastOp' = Op("StreamText")
    /\ UNCHANGED <<messages, transcription, sumario_final, pc, notice>>
    /\ UNCHANGED <<pipeVars, schemaVars, formatVars, appVars>>

\* a failing stream whose partial buffer is saved as an assistant turn
StreamErrorKeepsPartial ==
    /\ pc = "streaming"
    /\ pc' = "ready"
    /\ messages' = Append(messages, AssistantMessage(full_response))
    /\ full_response' = <<>>
    /\ placeholder' = Blank
    /\ stream' = <<>>
    /\ notice' = "exception"
    /\ lastOp' = Op("StreamError")
    /\ UNCHANGED <<transcription, sumario_final>>
    /\ UNCHANGED <<pipeVars, schemaVars, formatVars, appVars>>

\* the stream raises: the exception leaves the script run
StreamError ==
    /\ pc = "streaming"
    /\ pc' = "ready"
    /\ full_response' = <<>>
    /\ placeholder' = Blank
    /\ stream' = <<>>
    /\ notice' = "exception"
    /\ lastOp' = Op("StreamError")
    /\ UNCHANGED <<messages, transcription, sumario_final>>
    /\ UNCHANGED <<pipeVars, schemaVars, formatVars, appVars>>

\* a completion that parses the response but never saves it to the history
StreamDoneNoAppend ==
    /\ pc = "streaming"
    /\ stream = <<>>
    /\ sumario_final' = SumarioAfter(full_response, sumario_final)
    /\ notice' = NoticeAfter(full_response)
    /\ pc' = "ready"
    /\ full_response' = <<>>
    /\ placeholder' = Blank
    /\ lastOp' = Op("StreamDone")
    /\ UNCHANGED <<messages, transcription, stream>>
    /\ UNCHANGED <<pipeVars, schemaVars, formatVars, appVars>>

\* a completion whose parse failure stops the script for good
StreamDoneFatal ==
    /\ pc = "streaming"
    /\ stream = <<>>
    /\ messages' = Append(messages, AssistantMessage(full_response))
    /\ sumario_final' = SumarioAfter(full_response, sumario_final)
    /\ notice' = NoticeAfter(full_response)
    /\ pc' = IF NoticeAfter(full_response) = "warning" THEN "stopped" ELSE "ready"
    /\ full_response' = <<>>
    /\ placeholder' = Blank
    /\ lastOp' = Op("StreamDone")
    /\ UNCHANGED <<transcription, stream>>
    /\ UNCHANGED <<pipeVars, schemaVars, formatVars, appVars>>

\* the stream ends: the response is appended, then searched for the block
StreamDone ==
    /\ pc = "streaming"
    /\ stream = <<>>
    /\ messages' = Append(messages, AssistantMessage(full_response))
    /\ sumario_final' = SumarioAfter(full_response, sumario_final)
    /\ notice' = NoticeAfter(full_response)
    /\ pc' = "ready"
    /\ full_response' = <<>>
    /\ placeholder' = Blank
    /\ lastOp' = Op("StreamDone")
    /\ UNCHANGED <<transcription, stream>>
    /\ UNCHANGED <<pipeVars, schemaVars, formatVars, appVars>>

\* an upload that also drops the finalized record
TranscribeDropsSumario ==
    /\ pc = "ready"
    /\ Len(messages) + 1 <= MaxMessages
    /\ \E out \in TranscribeOutcomes :
         /\ out.ok
         /\ transcription' = SomeText(out.text)
         /\ messages' = Append(messages, UserMessage(TranscriptContent(out.text)))
    /\ sumario_final' = None
    /\ notice' = "success"
    /\ lastOp' = Op("Transcribe")
    /\ UNCHANGED <<pc, full_response, placeholder, stream>>
    /\ UNCHANGED <<pipeVars, schemaVars, formatVars, appVars>>

\* the Transcrever Audio button, transcribe_audio returning a text
Transcribe ==
    /\ pc = "ready"
    /\ Len(messages) + 1 <= MaxMessages
    /\ \E out \in TranscribeOutcomes :
         /\ out.ok
         /\ transcription' = SomeText(out.text)
         /\ messages' = Append(messages, UserMessage(TranscriptContent(out.text)))
    /\ notice' = "success"
    /\ lastOp' = Op("Transcribe")
    /\ UNCHANGED <<sumario_final, pc, full_response, placeholder, stream>>
    /\ UNCHANGED <<pipeVars, schemaVars, formatVars, appVars>>

\* the Transcrever Audio button, transcribe_audio raising
TranscribeError ==
    /\ pc = "ready"
    /\ \E out \in TranscribeOutcomes : ~out.ok
    /\ notice' = "error"
    /\ lastOp' = Op("TranscribeError")
    /\ UNCHANGED <<messages, transcription, sumario_final, pc, full_response,
                   placeholder, stream>>
    /\ UNCHANGED <<pipeVars, schemaVars, formatVars, appVars>>

\* a reset that forgets to clear the finalized record
ResetKeepsSumario ==
    /\ pc = "ready"
    /\ messages' = <<>>
    /\ transcription' = NoText
    /\ notice' = "none"
    /\ lastOp' = Op("Reset")
    /\ UNCHANGED <<sumario_final, pc, full_response, placeholder, stream>>
    /\ UNCHANGED <<pipeVars, schemaVars, formatVars, appVars>>

\* the Limpar Conversa button
Reset ==
    /\ pc = "ready"
    /\ messages' = <<>>
    /\ transcription' = NoText
    /\ sumario_final' = None
    /\ notice' = "none"
    /\ lastOp' = Op("Reset")
    /\ UNCHANGED <<pc, full_response, placeholder, stream>>
    /\ UNCHANGED <<pipeVars, schemaVars, formatVars, appVars>>

Init == ChatInit /\ PipeInit /\ SchemaInit /\ FormatInit /\ AppInit

Next ==
    \/ ChatInput
    \/ StreamText
    \/ StreamError
    \/ StreamDone
    \/ Transcribe
    \/ TranscribeError
    \/ Reset

Spec == Init /\ [][Next]_vars

-----------------------------------------------------------------------------
(* core.py: analyze_transcription and process_audio *)

\* the arguments process_audio may be called with
Audios == {<<>>, <<82, 73>>, <<79, 103, 103>>}
Filenames == {"plantao.mp3", "audio"}

\* the structured outputs the generation service may produce
AnalysisDocs == {DocA, DocB, DocMissing, DocBadList}

NoPair == [isNone |-> TRUE, text |-> "", sumario |-> BlankRecord]
Pair(t, r) == [isNone |-> FALSE, text |-> t, sumario |-> r]

\* what one call of analyze_transcription may do: chain.invoke returns the
\* SumarioPaciente built from the service's output, or an exception of the
\* service or of the validation leaves the function
AnalyzeOutcomes(text) ==
    {[ok |-> SumarioPaciente(d).ok,
      val |-> SumarioPaciente(d).val,
      error |-> SumarioPaciente(d).error] : d \in AnalysisDocs}
        \cup {[ok |-> FALSE, val |-> BlankRecord, error |-> "AnthropicError"]}

\* process_audio is called
PACall ==
    /\ pa_pc \in {"idle", "returned", "raised"}
    /\ \E audio_bytes \in Audios, filename \in Filenames :
         /\ pa_audio' = audio_bytes
         /\ pa_filename' = filename
    /\ pa_pc' = "transcribe"
    /\ pa_transcription' = NoText
    /\ pa_sumario' = None
    /\ pa_returned' = NoPair
    /\ pa_raised' = "none"
    /\ groq_calls' = 0
    /\ anthropic_calls' = 0
    /\ groq_request' = TranscriptionRequest(<<>>, "")
    /\ UNCHANGED <<chatVars, schemaVars, formatVars, appVars>>

\* a transcription step that tries again after a failure
PATranscribeRetry ==
    /\ pa_pc = "transcribe"
    /\ groq_calls' = groq_calls + 1
    /\ groq_request' = TranscriptionRequest(pa_audio, pa_filename)
    /\ \E out \in TranscribeOutcomes :
         IF out.ok
         THEN /\ pa_transcription' = SomeText(out.text)
              /\ pa_pc' = "analyze"
         ELSE /\ pa_pc' = "transcribe"
              /\ pa_transcription' = pa_transcription
    /\ UNCHANGED <<pa_audio, pa_filename, pa_sumario, pa_returned, pa_raised,
                   anthropic_calls>>
    /\ UNCHANGED <<chatVars, schemaVars, formatVars, appVars>>

\* Step 1: transcription = transcribe_audio(audio_bytes, filename, key);
\* an exception is not caught and ends the run
PATranscribe ==
    /\ pa_pc = "transcribe"
    /\ groq_calls' = groq_calls + 1
    /\ groq_request' = TranscriptionRequest(pa_audio, pa_filename)
    /\ \E out \in TranscribeOutcomes :
         IF out.ok
         THEN /\ pa_transcription' = SomeText(out.text)
              /\ pa_pc' = "analyze"
              /\ pa_raised' = pa_raised
         ELSE /\ pa_raised' = out.error
              /\ pa_pc' = "raised"
              /\ pa_transcription' = pa_transcription
    /\ UNCHANGED <<pa_audio, pa_filename, pa_sumario, pa_returned, anthropic_calls>>
    /\ UNCHANGED <<chatVars, schemaVars, formatVars, appVars>>

\* an analysis step that hands back the transcript when the analysis fails
PAAnalyzePartial ==
    /\ pa_pc = "analyze"
    /\ anthropic_calls' = anthropic_calls + 1
    /\ \E out \in AnalyzeOutcomes(pa_transcription.val) :
         IF out.ok
         THEN /\ pa_sumario' = Some(out.val)
              /\ pa_pc' = "return"
              /\ pa_returned' = pa_returned
         ELSE /\ pa_returned' = Pair(pa_transcription.val, BlankRecord)
              /\ pa_pc' = "returned"
              /\ pa_sumario' = pa_sumario
    /\ UNCHANGED <<pa_audio, pa_filename, pa_transcription, pa_raised,
                   groq_calls, groq_request>>
    /\ UNCHANGED <<chatVars, schemaVars, formatVars, appVars>>

\* Step 2: sumario = analyze_transcription(transcription, key); an
\* exception is not caught and ends the run
PAAnalyze ==
    /\ pa_pc = "analyze"
    /\ anthropic_calls' = anthropic_calls + 1
    /\ \E out \in AnalyzeOutcomes(pa_transcription.val) :
         IF out.ok
         THEN /\ pa_sumario' = Some(out.val)
              /\ pa_pc' = "return"
              /\ pa_raised' = pa_raised
         ELSE /\ pa_raised' = out.error
              /\ pa_pc' = "raised"
              /\ pa_sumario' = pa_sumario
    /\ UNCHANGED <<pa_audio, pa_filename, pa_transcription, pa_returned,
                   groq_calls, groq_request>>
    /\ UNCHANGED <<chatVars, schemaVars, formatVars, appVars>>

\* return transcription, sumario
PAReturn ==
    /\ pa_pc = "return"
    /\ pa_returned' = Pair(pa_transcription.val, pa_sumario.val)
    /\ pa_pc' = "returned"
    /\ UNCHANGED <<pa_audio, pa_filename, pa_transcription, pa_sumario,
                   pa_raised, groq_calls, groq_request, anthropic_calls>>
    /\ UNCHANGED <<chatVars, schemaVars, formatVars, appVars>>

PipeNext ==
    \/ PACall
    \/ PATranscribe
    \/ PAAnalyze
    \/ PAReturn

PipeSpec == Init /\ [][PipeNext]_vars

-----------------------------------------------------------------------------
(* core.py: SumarioPaciente(data) on every payload of the bounded set *)

\* the construction is about to run on one payload of the set
SchemaStart ==
    /\ ChatInit
    /\ PipeInit
    /\ FormatInit
    /\ AppInit
    /\ sc_pc = "input"
    /\ sc_data \in Payloads
    /\ sc_result = NoResult

\* sumario = SumarioPaciente(data)
SchemaConstruct ==
    /\ sc_pc = "input"
    /\ sc_result' = SumarioPaciente(sc_data)
    /\ sc_pc' = "done"
    /\ UNCHANGED sc_data
    /\ UNCHANGED <<chatVars, pipeVars, formatVars, appVars>>

SchemaNext ==
    \/ SchemaConstruct

SchemaSpec == SchemaStart /\ [][SchemaNext]_vars

-----------------------------------------------------------------------------
(* core.py: formatar and model_dump *)

\* In this part a string is a sequence of pieces, one of which may be the
\* line break, so that joining by line breaks is not the identity.
NL == "\n"

\* the bullet of the Condutas entries (U+2022 and a space in the source)
Bullet == "* "

\* str(i) for the numbers enumerate(..., 1) yields
DigitStr == <<"0", "1", "2", "3", "4", "5", "6", "7", "8", "9">>
Str(i) == DigitStr[i + 1]

\* "\n".join(linhas)
RECURSIVE Join(_)
Join(linhas) ==
    IF linhas = <<>> THEN <<>>
    ELSE IF Len(linhas) = 1 THEN linhas[1]
    ELSE linhas[1] \o <<NL>> \o Join(Tail(linhas))

\* a formatar whose numbering of the Pendencias goes on from the Diagnosticos
FormatarSharedCounter(self) ==
    LET n == Len(self.diagnosticos)
    IN  Join(<<<<"Leito ">> \o self.leito \o <<" - ">> \o self.nome_paciente, <<>>>>
             \o <<<<"Diagnosticos:">>>>
             \o [i \in 1..n |-> <<Str(i), "- ">> \o self.diagnosticos[i]]
             \o <<<<>>, <<"Pendencias:">>>>
             \o [i \in 1..Len(self.pendencias) |->
                    <<Str(n + i), "- ">> \o self.pendencias[i]]
             \o <<<<>>, <<"Condutas:">>>>
             \o [i \in 1..Len(self.condutas) |-> <<Bullet>> \o self.condutas[i]])

\* SumarioPaciente.formatar
Formatar(self) ==
    LET linhas0 == <<<<"Leito ">> \o self.leito \o <<" - ">> \o self.nome_paciente, <<>>>>
        linhas1 == Append(linhas0, <<"Diagnosticos:">>)
        linhas2 == linhas1 \o [i \in 1..Len(self.diagnosticos) |->
                                  <<Str(i), "- ">> \o self.diagnosticos[i]]
        linhas3 == Append(linhas2, <<>>)
        linhas4 == Append(linhas3, <<"Pendencias:">>)
        linhas5 == linhas4 \o [i \in 1..Len(self.pendencias) |->
                                  <<Str(i), "- ">> \o self.pendencias[i]]
        linhas6 == Append(linhas5, <<>>)
        linhas7 == Append(linhas6, <<"Condutas:">>)
        linhas8 == linhas7 \o [i \in 1..Len(self.condutas) |->
                                  <<Bullet>> \o self.condutas[i]]
    IN  Join(linhas8)

\* a model_dump that gives the lists back to front
ModelDumpReversed(self) ==
    LET Rev(l) == [i \in 1..Len(l) |-> AStr(l[Len(l) + 1 - i])]
    IN  JObject([leito |-> JStr(self.leito),
                 nome_paciente |-> JStr(self.nome_paciente),
                 diagnosticos |-> JList(Rev(self.diagnosticos)),
                 pendencias |-> JList(Rev(self.pendencias)),
                 condutas |-> JList(Rev(self.condutas))])

\* BaseModel.model_dump: the record as a dict of str and list[str]
ModelDump(self) ==
    LET Items(l) == [i \in 1..Len(l) |-> AStr(l[i])]
    IN  JObject([leito |-> JStr(self.leito),
                 nome_paciente |-> JStr(self.nome_paciente),
                 diagnosticos |-> JList(Items(self.diagnosticos)),
                 pendencias |-> JList(Items(self.pendencias)),
                 condutas |-> JList(Items(self.condutas))])

\* the strings a field of a record may hold; one spans two lines
Strs == {<<"IRA">>, <<"TC torax">>, <<"Manter", NL, "norepinefrina">>}
Leitos == {<<"3">>, <<"N/A">>}
Nomes == {<<"Joao Silva">>}

\* the valid records formatar and model_dump are run on
Records ==
    [leito : Leitos, nome_paciente : Nomes,
     diagnosticos : SeqsUpTo(Strs, MaxList),
     pendencias : SeqsUpTo(Strs, MaxList),
     condutas : SeqsUpTo(Strs, MaxList)]

\* a record is at hand
FormatStart ==
    /\ ChatInit
    /\ PipeInit
    /\ SchemaInit
    /\ AppInit
    /\ fm_pc = "input"
    /\ fm_record \in Records
    /\ fm_text = <<>>
    /\ fm_dump = NoDoc
    /\ fm_rebuilt = NoResult

\* sumario.formatar()
FmFormatar ==
    /\ fm_pc = "input"
    /\ fm_text' = Formatar(fm_record)
    /\ fm_pc' = "formatted"
    /\ UNCHANGED <<fm_record, fm_dump, fm_rebuilt>>
    /\ UNCHANGED <<chatVars, pipeVars, schemaVars, appVars>>

\* sumario.model_dump()
FmModelDump ==
    /\ fm_pc = "formatted"
    /\ fm_dump' = ModelDump(fm_record)
    /\ fm_pc' = "dumped"
    /\ UNCHANGED <<fm_record, fm_text, fm_rebuilt>>
    /\ UNCHANGED <<chatVars, pipeVars, schemaVars, appVars>>

\* SumarioPaciente(data) on the dumped dict
FmRebuild ==
    /\ fm_pc = "dumped"
    /\ fm_rebuilt' = SumarioPaciente(fm_dump)
    /\ fm_pc' = "rebuilt"
    /\ UNCHANGED <<fm_record, fm_text, fm_dump>>
    /\ UNCHANGED <<chatVars, pipeVars, schemaVars, appVars>>

FormatNext ==
    \/ FmFormatar
    \/ FmModelDump
    \/ FmRebuild

FormatSpec == FormatStart /\ [][FormatNext]_vars

-----------------------------------------------------------------------------
(* app.py: the single-shot page *)

\* a record whose strings are single pieces, as formatar reads it
AsPieces(r) ==
    [leito |-> <<r.leito>>,
     nome_paciente |-> <<r.nome_paciente>>,
     diagnosticos |-> [i \in 1..Len(r.diagnosticos) |-> <<r.diagnosticos[i]>>],
     pendencias |-> [i \in 1..Len(r.pendencias) |-> <<r.pendencias[i]>>],
     condutas |-> [i \in 1..Len(r.condutas) |-> <<r.condutas[i]>>]]

\* the results display: what is in st.session_state is what is shown
Shown(t, r) == [transcription |-> t, sumario |-> r]
NothingShown == Shown(NoText, None)

\* the value of st.file_uploader
NoFile == [isNone |-> TRUE, bytes |-> <<>>]
File(b) == [isNone |-> FALSE, bytes |-> b]

\* the user picks or removes a file: a script run without the button
APUpload ==
    /\ ap_pc = "ready"
    /\ \E f \in {NoFile} \cup {File(b) : b \in Audios} :
         /\ f # ap_uploaded
         /\ ap_uploaded' = f
    /\ ap_notice' = "none"
    /\ ap_shown' = Shown(ap_transcription, ap_sumario)
    /\ UNCHANGED <<ap_pc, ap_transcription, ap_sumario, ap_sumario_text,
                   ap_local, ap_source>>
    /\ UNCHANGED <<chatVars, pipeVars, schemaVars, formatVars>>

\* Gerar Sumario pressed, Step 1: the transcription is stored as soon as it
\* is returned; on an exception st.error and st.stop end the script run
APTranscribe ==
    /\ ap_pc = "ready"
    /\ ~ap_uploaded.isNone
    /\ \E audio_bytes \in {ap_uploaded.bytes}, out \in TranscribeOutcomes :
         IF out.ok
         THEN /\ ap_local' = SomeText(out.text)
              /\ ap_transcription' = SomeText(out.text)
              /\ ap_pc' = "analyze"
              /\ ap_notice' = "none"
         ELSE /\ ap_notice' = "error_transcription"
              /\ ap_pc' = "ready"
              /\ UNCHANGED <<ap_local, ap_transcription>>
    /\ ap_shown' = NothingShown
    /\ UNCHANGED <<ap_sumario, ap_sumario_text, ap_source, ap_uploaded>>
    /\ UNCHANGED <<chatVars, pipeVars, schemaVars, formatVars>>

\* Step 2: the summary and its text are stored when the analysis returns,
\* and the results are displayed; on an exception st.error and st.stop end
\* the script run before the display
APAnalyze ==
    /\ ap_pc = "analyze"
    /\ \E out \in AnalyzeOutcomes(ap_local.val) :
         IF out.ok
         THEN /\ ap_sumario' = Some(out.val)
              /\ ap_sumario_text' = Formatar(AsPieces(out.val))
              /\ ap_source' = ap_local
              /\ ap_notice' = "success"
              /\ ap_shown' = Shown(ap_transcription, Some(out.val))
         ELSE /\ ap_notice' = "error_analysis"
              /\ ap_shown' = NothingShown
              /\ UNCHANGED <<ap_sumario, ap_sumario_text, ap_source>>
    /\ ap_pc' = "ready"
    /\ UNCHANGED <<ap_transcription, ap_local, ap_uploaded>>
    /\ UNCHANGED <<chatVars, pipeVars, schemaVars, formatVars>>

\* a script run in which the button was not pressed: only the display
APRerun ==
    /\ ap_pc = "ready"
    /\ ap_notice' = "none"
    /\ ap_shown' = Shown(ap_transcription, ap_sumario)
    /\ UNCHANGED <<ap_pc, ap_transcription, ap_sumario, ap_sumario_text,
                   ap_local, ap_source, ap_uploaded>>
    /\ UNCHANGED <<chatVars, pipeVars, schemaVars, formatVars>>

AppNext ==
    \/ APUpload
    \/ APTranscribe
    \/ APAnalyze
    \/ APRerun

AppSpec == Init /\ [][AppNext]_vars

-----------------------------------------------------------------------------
(* Properties of the conversational session, checked under Spec *)

IsPrefix(a, b) == Len(a) <= Len(b) /\ SubSeq(b, 1, Len(a)) = a

\* a step of the chat handler that ends the stream normally and commits
\* the response
Completes ==
    /\ pc = "streaming"
    /\ pc' # "streaming"
    /\ Len(messages') = Len(messages) + 1

\* the delimited payload of a response, between the first opening marker
\* and the first closing marker, surrounding whitespace dropped
Payload(text) ==
    LET o == Index(text, "open")
        c == Index(text, "close")
        raw == IF c <= o THEN <<>> ELSE [i \in 1..(c - o - 1) |-> text[o + i]]
        lead == {i \in 1..Len(raw) : \A j \in 1..i : raw[j].k = "ws"}
        trail == {i \in 1..Len(raw) : \A j \in i..Len(raw) : raw[j].k = "ws"}
    IN  [i \in 1..(Len(raw) - Cardinality(lead) - Cardinality(trail)) |->
            raw[Cardinality(lead) + i]]

NotJson(text) == ~(Len(Payload(text)) = 1 /\ Payload(text)[1].k = "json")
PayloadDoc(text) == Payload(text)[1].doc
NotAnObject(d) == d.kind # "obj"
MissingField(d) == \E f \in FieldNames : d.fields[f].t = "absent"
NonStringItem(d) ==
    \E f \in ListFields :
        /\ d.fields[f].t = "list"
        /\ \E i \in 1..Len(d.fields[f].items) : d.fields[f].items[i].t # "str"
WrongShape(d) ==
    \/ \E f \in StrFields : d.fields[f].t # "str"
    \/ \E f \in ListFields : d.fields[f].t # "list"

\* the payload of a response with both markers fails schema validation
FailsValidation(text) ==
    \/ NotJson(text)
    \/ NotAnObject(PayloadDoc(text))
    \/ MissingField(PayloadDoc(text))
    \/ NonStringItem(PayloadDoc(text))
    \/ WrongShape(PayloadDoc(text))

\* the record a well-formed, schema-valid payload stands for
RecordOf(d) ==
    [leito |-> d.fields["leito"].s,
     nome_paciente |-> d.fields["nome_paciente"].s,
     diagnosticos |-> [i \in 1..Len(d.fields["diagnosticos"].items) |->
                          d.fields["diagnosticos"].items[i].s],
     pendencias |-> [i \in 1..Len(d.fields["pendencias"].items) |->
                        d.fields["pendencias"].items[i].s],
     condutas |-> [i \in 1..Len(d.fields["condutas"].items) |->
                      d.fields["condutas"].items[i].s]]

IsAssistantBlock(m) == m.role = "assistant" /\ HasBothMarkers(m.content)

\* C1: a completed response whose delimited payload fails validation (not
\* JSON, not an object, a required field missing, a list field holding a
\* non-string) leaves sumario_final as it was, leaves a Conversing session
\* in Conversing, and emits a warning; the script run ends normally.
C1_NoFinalizeOnInvalidPayload ==
    [][ (Completes /\ HasBothMarkers(full_response) /\ FailsValidation(full_response))
          => /\ sumario_final' = sumario_final
             /\ (SessionState = "Conversing" => SessionState' = "Conversing")
             /\ notice' = "warning"
             /\ pc' = "ready" ]_vars

C1_Witness ==
    /\ lastOp.op = "StreamDone"
    /\ notice = "warning"
    /\ SessionState = "Conversing"
    /\ IsAssistantBlock(messages[Len(messages)])
    /\ ~NotJson(messages[Len(messages)].content)
    /\ NonStringItem(PayloadDoc(messages[Len(messages)].content))

\* C2: Reset is enabled whenever the session waits for the user, whatever
\* its state; a Reset step ends in Idle with an empty history and no
\* finalized record; the history or the finalized record is cleared by no
\* other step.
C2_ResetAlwaysToIdle ==
    /\ [](pc = "ready" => ENABLED Reset)
    /\ [][ /\ (lastOp'.op = "Reset" /\ lastOp' # lastOp
                 => /\ messages' = <<>>
                    /\ sumario_final'.isNone
                    /\ SessionState' = "Idle")
           /\ ((messages # <<>> /\ messages' = <<>>)
                 \/ (~sumario_final.isNone /\ sumario_final'.isNone)
                 => lastOp'.op = "Reset") ]_vars

C2_Witness ==
    /\ lastOp = [op |-> "Reset", from |-> "Finalized"]
    /\ SessionState = "Idle"
    /\ messages = <<>>
    /\ sumario_final.isNone

\* C6 as claimed: a stored finalized record changes only on Reset, to none.
C6_Original ==
    [][ (~sumario_final.isNone /\ sumario_final' # sumario_final)
          => (lastOp'.op = "Reset" /\ sumario_final'.isNone) ]_vars

\* C6, amended: a stored finalized record changes only on Reset (to none)
\* or when a later completed response holds both markers and a payload that
\* passes validation, which replaces it by the record of that payload; user
\* turns, uploads, streamed tokens, failed streams and responses without a
\* valid block leave it as it is.
C6_ReplacedOnlyByValidBlock ==
    [][ (~sumario_final.isNone /\ sumario_final' # sumario_final)
          => \/ (lastOp'.op = "Reset" /\ sumario_final'.isNone)
             \/ /\ Completes
                /\ HasBothMarkers(full_response)
                /\ ~FailsValidation(full_response)
                /\ sumario_final' = Some(RecordOf(PayloadDoc(full_response))) ]_vars

C6_Witness ==
    /\ ~sumario_final.isNone
    /\ \E i \in 1..Len(messages) : \E j \in (i + 1)..Len(messages) :
         /\ IsAssistantBlock(messages[i]) /\ ~FailsValidation(messages[i].content)
         /\ IsAssistantBlock(messages[j]) /\ ~FailsValidation(messages[j].content)
         /\ RecordOf(PayloadDoc(messages[i].content)) # sumario_final.val
         /\ RecordOf(PayloadDoc(messages[j].content)) = sumario_final.val

\* C7: while the stream runs the history ends with the user's turn and has
\* no entry for the response in flight, the placeholder shows the buffer,
\* and the buffer only grows at its end; the response is appended, whole,
\* by the step that ends the stream; a stream that fails appends nothing.
C7_CommittedAfterStream ==
    /\ [](pc = "streaming"
            => /\ messages # <<>>
               /\ messages[Len(messages)].role = "user"
               /\ (full_response # <<>> => placeholder.text = full_response))
    /\ [][ /\ (pc = "streaming" /\ pc' = "streaming"
                 => /\ messages' = messages
                    /\ IsPrefix(full_response, full_response')
                    /\ placeholder'.text = full_response')
           /\ (pc = "streaming" /\ pc' # "streaming"
                 => \/ messages' = messages
                    \/ /\ stream = <<>>
                       /\ messages' = Append(messages, AssistantMessage(full_response)))
           /\ (lastOp'.op = "StreamError" /\ pc = "streaming"
                 => messages' = messages) ]_vars

C7_Witness ==
    /\ pc = "streaming"
    /\ Len(full_response) >= 2
    /\ stream # <<>>
    /\ placeholder = [text |-> full_response, cursor |-> TRUE]
    /\ ~\E i \in 1..Len(messages) : messages[i].role = "assistant"

\* C8 as claimed: a step that appends a user turn opens the generation call
\* that answers it, and the history never holds two consecutive user turns.
C8_UserTurnThenAssistantTurn ==
    /\ [][ (Len(messages') = Len(messages) + 1
              /\ messages'[Len(messages')].role = "user")
             => pc' = "streaming" ]_vars
    /\ [](\A i \in 1..(Len(messages) - 1) :
            ~(messages[i].role = "user" /\ messages[i + 1].role = "user"))

\* C9: after a warning the session still takes a user turn, and a completed
\* response holding both markers and a payload that passes validation moves
\* the session to Finalized with the record of that payload, whatever
\* happened before.
C9_ParseFailureNotFatal ==
    /\ []((notice = "warning" /\ Len(messages) + 2 <= MaxMessages)
            => ENABLED ChatInput)
    /\ [][ (Completes /\ HasBothMarkers(full_response) /\ ~FailsValidation(full_response))
             => /\ sumario_final' = Some(RecordOf(PayloadDoc(full_response)))
                /\ SessionState' = "Finalized" ]_vars

C9_Witness ==
    /\ SessionState = "Finalized"
    /\ lastOp.op = "StreamDone"
    /\ IsAssistantBlock(messages[Len(messages)])
    /\ ~FailsValidation(messages[Len(messages)].content)
    /\ sumario_final.val = RecordOf(PayloadDoc(messages[Len(messages)].content))
    /\ \E i \in 1..(Len(messages) - 1) :
         IsAssistantBlock(messages[i]) /\ FailsValidation(messages[i].content)

\* the positions of a marker in a text and the first of them
Positions(text, k) == {i \in 1..Len(text) : text[i].k = k}
FirstPos(text, k) ==
    CHOOSE i \in Positions(text, k) : \A j \in Positions(text, k) : i <= j

\* the chunks after the first opening marker and before the first closing
\* marker; none when the closing marker comes first
Between(text) ==
    LET o == FirstPos(text, "open")
        c == FirstPos(text, "close")
    IN  IF c < o THEN <<>> ELSE [i \in 1..(c - o - 1) |-> text[o + i]]

\* a text without its leading and trailing whitespace
Trimmed(text) ==
    LET keep == {i \in 1..Len(text) :
                    /\ \E j \in 1..i : text[j].k # "ws"
                    /\ \E j \in i..Len(text) : text[j].k # "ws"}
        lead == Cardinality({i \in 1..Len(text) : \A j \in 1..i : text[j].k = "ws"})
    IN  [i \in 1..Cardinality(keep) |-> text[lead + i]]

\* the text is one JSON object that passes the schema
IsValidDocument(text) ==
    /\ Len(text) = 1
    /\ text[1].k = "json"
    /\ ~NotAnObject(text[1].doc)
    /\ ~MissingField(text[1].doc)
    /\ ~NonStringItem(text[1].doc)
    /\ ~WrongShape(text[1].doc)

BothMarkers(text) == Positions(text, "open") # {} /\ Positions(text, "close") # {}
OneMarker(text) == (Positions(text, "open") # {}) # (Positions(text, "close") # {})

\* C13: the step that commits a response attempts the finalization (ends in
\* success or warning) exactly when the response holds both markers; what
\* it parses is the text between the first opening and the first closing
\* marker; a closing marker that comes first gives an empty payload, a
\* warning and no finalization; one marker alone gives neither.
C13_FinalizationTrigger ==
    [][ Completes
          => /\ (notice' \in {"success", "warning"} <=> BothMarkers(full_response))
             /\ (BothMarkers(full_response)
                   => /\ JsonStr(full_response) = Trimmed(Between(full_response))
                      /\ (notice' = "success"
                            <=> IsValidDocument(Trimmed(Between(full_response))))
                      /\ (notice' = "success"
                            => sumario_final' =
                                 Some(RecordOf(Trimmed(Between(full_response))[1].doc)))
                      /\ (notice' = "warning" => sumario_final' = sumario_final))
             /\ ((BothMarkers(full_response)
                    /\ FirstPos(full_response, "close") < FirstPos(full_response, "open"))
                   => /\ JsonStr(full_response) = <<>>
                      /\ notice' = "warning"
                      /\ sumario_final' = sumario_final)
             /\ (OneMarker(full_response)
                   => notice' = "none" /\ sumario_final' = sumario_final) ]_vars

C13_Witness ==
    /\ lastOp.op = "StreamDone"
    /\ notice = "warning"
    /\ sumario_final.isNone
    /\ LET last == messages[Len(messages)].content
       IN  /\ BothMarkers(last)
           /\ FirstPos(last, "close") < FirstPos(last, "open")
           /\ \E i \in 1..Len(last) : last[i].k = "json"
           /\ \E i \in Positions(last, "close") : i > FirstPos(last, "open")

\* the message is an assistant turn whose delimited payload deserializes
\* to the record
HoldsRecord(m, record) ==
    /\ m.role = "assistant"
    /\ BothMarkers(m.content)
    /\ IsValidDocument(Trimmed(Between(m.content)))
    /\ RecordOf(Trimmed(Between(m.content))[1].doc) = record

\* C15: whenever a finalized record is stored, the history is not empty and
\* holds an assistant turn with both markers whose payload deserializes to
\* exactly that record; an Idle session has no finalized record.
C15_FinalizedRecordHasSource ==
    /\ (~sumario_final.isNone
          => /\ messages # <<>>
             /\ \E i \in 1..Len(messages) : HoldsRecord(messages[i], sumario_final.val))
    /\ (messages = <<>> => sumario_final.isNone)

C15_Witness ==
    /\ ~sumario_final.isNone
    /\ pc = "ready"
    /\ Len(messages) >= 4
    /\ ~BothMarkers(messages[Len(messages)].content)
    /\ messages[Len(messages)].role = "assistant"
    /\ \E i \in 1..(Len(messages) - 1) : HoldsRecord(messages[i], sumario_final.val)

-----------------------------------------------------------------------------
(* Properties of process_audio, checked under PipeSpec *)

StageErrors == {"GroqError", "AnthropicError", "ValidationError", "TypeError"}

\* C3: a failing transcription leaves the analysis uncalled and nothing
\* returned; a failing analysis leaves nothing returned; the error raised is
\* the failing stage's; a pair is returned only after both stages succeeded
\* and is (transcript, summary).
C3_AbortsAtFirstFailure ==
    /\ (pa_pc = "raised"
          => /\ pa_returned.isNone
             /\ pa_raised \in StageErrors
             /\ (pa_transcription.isNone
                   => anthropic_calls = 0 /\ pa_raised = "GroqError")
             /\ (~pa_transcription.isNone
                   => anthropic_calls = 1 /\ pa_raised # "GroqError"))
    /\ (pa_pc # "raised" => pa_raised = "none")
    /\ (pa_pc # "returned" => pa_returned.isNone)
    /\ (pa_pc = "returned"
          => /\ ~pa_returned.isNone
             /\ ~pa_transcription.isNone
             /\ ~pa_sumario.isNone
             /\ groq_calls = 1
             /\ anthropic_calls = 1
             /\ pa_returned = Pair(pa_transcription.val, pa_sumario.val))

C3_Witness ==
    /\ pa_pc = "raised"
    /\ ~pa_transcription.isNone
    /\ anthropic_calls = 1
    /\ pa_raised = "AnthropicError"
    /\ pa_returned.isNone

\* C4 as claimed: a pair returned for a non-empty audio holds a non-empty
\* transcript and a record that passed validation.
C4_NonEmptyTranscriptAndValidRecord ==
    (pa_pc = "returned" /\ pa_audio # <<>>)
        => /\ pa_returned.text # ""
           /\ \E d \in AnalysisDocs :
                /\ ~NotAnObject(d) /\ ~MissingField(d)
                /\ ~NonStringItem(d) /\ ~WrongShape(d)
                /\ pa_returned.sumario = RecordOf(d)

\* C10: in a run the transcription service is called once, the generation
\* service at most once and only after the transcription returned, the
\* request is the one built from the arguments, and a run that raised has
\* made no further call.
C10_SingleAttempt ==
    /\ groq_calls <= 1
    /\ anthropic_calls <= 1
    /\ (pa_pc \in {"analyze", "return", "returned", "raised"}
          => /\ groq_calls = 1
             /\ groq_request = TranscriptionRequest(pa_audio, pa_filename))
    /\ (pa_pc \in {"return", "returned"} => anthropic_calls = 1)
    /\ (anthropic_calls = 1 => groq_calls = 1 /\ ~pa_transcription.isNone)
    /\ (pa_raised # "none" => pa_pc = "raised")

C10_Witness ==
    /\ pa_pc = "raised"
    /\ pa_raised = "GroqError"
    /\ groq_calls = 1
    /\ anthropic_calls = 0

-----------------------------------------------------------------------------
(* Properties of the schema, checked under SchemaSpec *)

\* C5: the construction is rejected when the payload lacks one of the five
\* fields, and when a list field holds a non-string; it succeeds exactly
\* when the payload is an object with the two text fields strings and the
\* three list fields lists of strings, and then yields those values.
C5_SchemaRejects ==
    sc_pc = "done"
        => /\ (MissingField(sc_data) => ~sc_result.ok)
           /\ (NonStringItem(sc_data) => ~sc_result.ok)
           /\ (sc_result.ok
                 <=> ~(NotAnObject(sc_data) \/ MissingField(sc_data)
                         \/ NonStringItem(sc_data) \/ WrongShape(sc_data)))
           /\ (sc_result.ok => sc_result.val = RecordOf(sc_data))
           /\ (~sc_result.ok => sc_result.error \in {"TypeError", "ValidationError"})

C5_Witness ==
    /\ sc_pc = "done"
    /\ ~sc_result.ok
    /\ sc_result.error = "ValidationError"
    /\ sc_data.fields["condutas"].t = "absent"
    /\ \A f \in FieldNames \ {"condutas"} : sc_data.fields[f].t # "absent"
    /\ ~NonStringItem(sc_data)
    /\ ~WrongShape([sc_data EXCEPT !.fields["condutas"] = JList(<<>>)])

-----------------------------------------------------------------------------
(* Properties of formatar and model_dump, checked under FormatSpec *)

\* text.split("\n"): the lines of a text
RECURSIVE SplitLines(_)
SplitLines(text) ==
    IF \A i \in 1..Len(text) : text[i] # NL THEN <<text>>
    ELSE LET b == CHOOSE i \in 1..Len(text) :
                      text[i] = NL /\ \A j \in 1..(i - 1) : text[j] # NL
         IN  <<SubSeq(text, 1, b - 1)>> \o SplitLines(SubSeq(text, b + 1, Len(text)))

\* the 7 + n + m + k entries the output is made of, in order
ExpectedLines(r) ==
    LET n == Len(r.diagnosticos)
        m == Len(r.pendencias)
        k == Len(r.condutas)
    IN  [j \in 1..(7 + n + m + k) |->
            IF j = 1 THEN <<"Leito ">> \o r.leito \o <<" - ">> \o r.nome_paciente
            ELSE IF j = 2 THEN <<>>
            ELSE IF j = 3 THEN <<"Diagnosticos:">>
            ELSE IF j <= 3 + n THEN <<DigitStr[j - 3 + 1], "- ">> \o r.diagnosticos[j - 3]
            ELSE IF j = 4 + n THEN <<>>
            ELSE IF j = 5 + n THEN <<"Pendencias:">>
            ELSE IF j <= 5 + n + m
                 THEN <<DigitStr[j - 5 - n + 1], "- ">> \o r.pendencias[j - 5 - n]
            ELSE IF j = 6 + n + m THEN <<>>
            ELSE IF j = 7 + n + m THEN <<"Condutas:">>
            ELSE <<"* ">> \o r.condutas[j - 7 - n - m]]

\* the number of line breaks held in the entries
Breaks(lines) ==
    Cardinality(UNION {{<<i, j>> : j \in {x \in 1..Len(lines[i]) : lines[i][x] = NL}} :
                          i \in 1..Len(lines)})

HasNoLineBreak(r) == Breaks(ExpectedLines(r)) = 0

Formatted == fm_pc \in {"formatted", "dumped", "rebuilt"}

\* C11 as claimed: the output of formatar consists of exactly the header, a
\* blank line, the three titled sections with their entries (numbered from 1
\* in each of the first two, bulleted in the third) separated by blank
\* lines: 7 + n + m + k lines and no trailing blank line.
C11_Original ==
    Formatted
        => /\ SplitLines(fm_text) = ExpectedLines(fm_record)
           /\ Len(SplitLines(fm_text)) =
                7 + Len(fm_record.diagnosticos) + Len(fm_record.pendencias)
                  + Len(fm_record.condutas)

\* C11, amended: when no field of the record holds a line break, the
\* output consists of exactly those 7 + n + m + k lines in that order, with
\* no trailing blank line; in every case it has one line per entry plus one
\* per line break held in a field.
C11_FormatarLines ==
    Formatted
        => /\ (HasNoLineBreak(fm_record)
                 => /\ SplitLines(fm_text) = ExpectedLines(fm_record)
                    /\ Len(SplitLines(fm_text)) =
                         7 + Len(fm_record.diagnosticos)
                           + Len(fm_record.pendencias) + Len(fm_record.condutas))
           /\ Len(SplitLines(fm_text)) =
                Len(ExpectedLines(fm_record)) + Breaks(ExpectedLines(fm_record))

C11_Witness ==
    /\ Formatted
    /\ HasNoLineBreak(fm_record)
    /\ Len(fm_record.diagnosticos) = 2
    /\ Len(fm_record.pendencias) = 2
    /\ Len(fm_record.condutas) = 1
    /\ Len(SplitLines(fm_text)) = 12
    /\ SplitLines(fm_text)[8] = <<"1", "- ">> \o fm_record.pendencias[1]

\* C12: for every valid record, constructing a record from its model_dump
\* succeeds and gives a record equal to it field by field, lists in the same
\* order, and so with the same formatar output.
C12_RoundTrip ==
    fm_pc = "rebuilt"
        => /\ fm_rebuilt.ok
           /\ fm_rebuilt.val.leito = fm_record.leito
           /\ fm_rebuilt.val.nome_paciente = fm_record.nome_paciente
           /\ \A f \in ListFields :
                /\ Len(fm_rebuilt.val[f]) = Len(fm_record[f])
                /\ \A i \in 1..Len(fm_record[f]) : fm_rebuilt.val[f][i] = fm_record[f][i]
           /\ fm_rebuilt.val = fm_record
           /\ Formatar(fm_rebuilt.val) = fm_text

C12_Witness ==
    /\ fm_pc = "rebuilt"
    /\ fm_rebuilt.ok
    /\ Len(fm_record.diagnosticos) = 2
    /\ fm_record.diagnosticos[1] # fm_record.diagnosticos[2]
    /\ fm_rebuilt.val.diagnosticos = fm_record.diagnosticos
    /\ fm_dump.fields["diagnosticos"].items[2].s = fm_record.diagnosticos[2]

-----------------------------------------------------------------------------
(* Properties of the single-shot page, checked under AppSpec *)

\* C14 as claimed: between runs, a session that holds a transcription and a
\* summary holds the summary extracted from that transcription, and what is
\* shown is never a transcript next to a summary extracted from another one.
C14_SummaryMatchesTranscription ==
    ap_pc = "ready"
        => /\ ((~ap_transcription.isNone /\ ~ap_sumario.isNone)
                 => ap_source = ap_transcription)
           /\ ((~ap_shown.transcription.isNone /\ ~ap_shown.sumario.isNone)
                 => ap_source = ap_shown.transcription)

=============================================================================
